---- MODULE Spec2Model ----
(***************************************************************************)
(* Model of the demo-data pipeline of On-Call-Burnout-Detector:            *)
(*   backend/app/services/demo_analysis_service.py  (template cache and    *)
(*       demo provisioner)                                                 *)
(*   backend/slim_mock_data.py                      (compaction transform) *)
(*                                                                         *)
(* JSON / Python values are tagged records, so that values of different    *)
(* Python types can be compared:                                           *)
(*   None -> PyNone, bool -> PyBool(b), int -> PyInt(n), str -> PyStr(s),  *)
(*   dict -> PyDict(f) with f a function from key strings to values,       *)
(*   list -> PyList(s) with s a sequence of values.                        *)
(***************************************************************************)
EXTENDS Integers, Sequences, FiniteSets, TLC

\* ------------------------------------------------------------------ bounds

\* Number of calls (provision, get_template) started in one behaviour.
MaxCalls == 3

\* ------------------------------------------------------------ Python values

PyNone == [t |-> "null"]
PyBool(b) == [t |-> "bool", v |-> b]
PyInt(n) == [t |-> "int", v |-> n]
PyStr(s) == [t |-> "str", v |-> s]
PyDict(f) == [t |-> "dict", v |-> f]
PyList(s) == [t |-> "list", v |-> s]

\* The empty dict {}.
EmptyDict == PyDict([k \in {} |-> PyNone])

IsDict(x) == x.t = "dict"
IsStr(x) == x.t = "str"

\* `k in d` for a dict d.
HasKey(d, k) == k \in DOMAIN d.v

\* d.get(k, default) for a dict d.
GetOr(d, k, default) == IF HasKey(d, k) THEN d.v[k] ELSE default

\* d.get(k) for a dict d: None when the key is absent.
Get(d, k) == GetOr(d, k, PyNone)

\* d[k] = x on a copy of dict d.
SetKey(d, k, x) == PyDict([j \in (DOMAIN d.v) \cup {k} |-> IF j = k THEN x ELSE d.v[j]])

\* Python truthiness, bool(x).
Truthy(x) ==
    CASE x.t = "null" -> FALSE
      [] x.t = "bool" -> x.v
      [] x.t = "int" -> x.v # 0
      [] x.t = "str" -> x.v # ""
      [] x.t = "dict" -> DOMAIN x.v # {}
      [] x.t = "list" -> Len(x.v) > 0
      [] OTHER -> TRUE

\* ------------------------------------------------- slim_mock_data.py, pure

\* A call that raised instead of returning.
Raised == [t |-> "raise"]

\* x or y.
PyOr(x, y) == IF Truthy(x) THEN x ELSE y

\* x.get(k) for any x: only a dict has get, anything else raises AttributeError.
GetAttr(x, k) == IF IsDict(x) THEN Get(x, k) ELSE Raised

\* Mutant of SlimUserObject: the id is looked up in the attributes.
SlimUserObject_IdFromAttrs(user_obj) ==
    IF ~Truthy(user_obj) \/ ~IsDict(user_obj) THEN PyNone
    ELSE IF HasKey(user_obj, "data")
    THEN LET user_data == user_obj.v["data"] IN
         IF ~Truthy(user_data) \/ ~IsDict(user_data) THEN PyNone
         ELSE LET user_attrs == GetOr(user_data, "attributes", EmptyDict) IN
              IF ~IsDict(user_attrs) THEN Raised
              ELSE PyDict([id |-> Get(user_attrs, "id"),
                           email |-> Get(user_attrs, "email"),
                           name |-> PyOr(Get(user_attrs, "name"),
                                         Get(user_attrs, "full_name"))])
    ELSE user_obj

\* slim_user_object.
SlimUserObject(user_obj) ==
    IF ~Truthy(user_obj) \/ ~IsDict(user_obj) THEN PyNone
    ELSE IF HasKey(user_obj, "data")
    THEN LET user_data == user_obj.v["data"] IN
         IF ~Truthy(user_data) \/ ~IsDict(user_data) THEN PyNone
         ELSE LET user_attrs == GetOr(user_data, "attributes", EmptyDict) IN
              IF ~IsDict(user_attrs) THEN Raised
              ELSE PyDict([id |-> Get(user_data, "id"),
                           email |-> Get(user_attrs, "email"),
                           name |-> PyOr(Get(user_attrs, "name"),
                                         Get(user_attrs, "full_name"))])
    ELSE user_obj

\* Mutant of ExtractSeverityName: a value that is already a string is not kept.
ExtractSeverityName_NoPlainString(severity_obj) ==
    IF ~Truthy(severity_obj) THEN PyNone
    ELSE IF IsDict(severity_obj)
    THEN IF /\ HasKey(severity_obj, "data")
            /\ IsDict(severity_obj.v["data"])
            /\ HasKey(severity_obj.v["data"], "attributes")
         THEN GetAttr(severity_obj.v["data"].v["attributes"], "name")
         ELSE IF HasKey(severity_obj, "attributes")
         THEN GetAttr(severity_obj.v["attributes"], "name")
         ELSE PyNone
    ELSE PyNone

\* extract_severity_name.
ExtractSeverityName(severity_obj) ==
    IF ~Truthy(severity_obj) THEN PyNone
    ELSE IF IsStr(severity_obj) THEN severity_obj
    ELSE IF IsDict(severity_obj)
    THEN IF /\ HasKey(severity_obj, "data")
            /\ IsDict(severity_obj.v["data"])
            /\ HasKey(severity_obj.v["data"], "attributes")
         THEN GetAttr(severity_obj.v["data"].v["attributes"], "name")
         ELSE IF HasKey(severity_obj, "attributes")
         THEN GetAttr(severity_obj.v["attributes"], "name")
         ELSE PyNone
    ELSE PyNone

\* The four user-reference fields of an incident's attributes.
UserFields == {"user", "started_by", "resolved_by", "mitigated_by"}

\* The fields copied as they are.
PlainFields ==
    {"sequential_id", "title", "summary", "status",
     "created_at", "started_at", "acknowledged_at", "mitigated_at", "resolved_at",
     "slack_channel_id", "slack_channel_name", "slack_channel_url",
     "slack_channel_deep_link"}

\* The keys of the dict slim_incident builds under 'attributes'.
SlimFields == PlainFields \cup {"severity"} \cup UserFields

\* The value slim_incident computes for key k from attrs.
SlimField(attrs, k) ==
    IF k = "severity" THEN ExtractSeverityName(Get(attrs, "severity"))
    ELSE IF k \in UserFields THEN SlimUserObject(Get(attrs, k))
    ELSE Get(attrs, k)

\* Mutant of DropNone: the None values are kept.
DropNone_KeepsAll(full) == PyDict(full)

\* {k: v for k, v in ... if v is not None}.
DropNone(full) == PyDict([k \in {j \in DOMAIN full : full[j] # PyNone} |-> full[k]])

\* slim_incident.
SlimIncident(incident) ==
    IF ~Truthy(incident) \/ ~IsDict(incident) THEN incident
    ELSE LET attrs == GetOr(incident, "attributes", EmptyDict) IN
         IF ~IsDict(attrs) THEN Raised
         ELSE LET full == [k \in SlimFields |-> SlimField(attrs, k)] IN
              IF \E k \in SlimFields : full[k] = Raised THEN Raised
              ELSE PyDict([id |-> Get(incident, "id"),
                           type |-> Get(incident, "type"),
                           attributes |-> DropNone(full)])

\* Mutant of SlimIncidents: pass-through records are filtered out of the batch.
SlimIncidents_Filters(incidents) ==
    IF ~Truthy(incidents) THEN incidents
    ELSE IF \E i \in 1..Len(incidents.v) : SlimIncident(incidents.v[i]) = Raised
    THEN Raised
    ELSE PyList(SelectSeq([i \in 1..Len(incidents.v) |-> SlimIncident(incidents.v[i])],
                          IsDict))

\* slim_incidents: the size report aside, the list of the slimmed records.
SlimIncidents(incidents) ==
    IF ~Truthy(incidents) THEN incidents
    ELSE IF \E i \in 1..Len(incidents.v) : SlimIncident(incidents.v[i]) = Raised
    THEN Raised
    ELSE PyList([i \in 1..Len(incidents.v) |-> SlimIncident(incidents.v[i])])

\* ------------------------------------------------- raw incidents (inputs)

\* Number of incidents in a batch given to slim_incidents.
MaxBatch == 2

\* Marks a key that the dict does not have.
Absent == [t |-> "absent"]

\* A severity in envelope form, {data: {attributes: {name}}}.
NestedSeverity(n) ==
    PyDict([data |-> PyDict([attributes |-> PyDict([name |-> n])])])

\* The values a raw incident's severity attribute takes.
SeverityForms ==
    {Absent, PyNone, PyInt(3), PyStr("SEV1"), PyStr(""),
     NestedSeverity(PyStr("SEV1")), NestedSeverity(PyStr("")),
     NestedSeverity(PyInt(2)),
     PyDict([data |-> PyDict([attributes |-> EmptyDict]),
             attributes |-> PyDict([name |-> PyStr("SEV2")])]),
     PyDict([attributes |-> PyDict([name |-> PyStr("SEV2")])]),
     PyDict([data |-> PyDict([id |-> PyInt(1)])]),
     PyDict([data |-> PyDict([attributes |-> PyNone])])}

\* A user reference in flat form and in envelope form.
FlatUser(i, e, n) == PyDict([id |-> i, email |-> e, name |-> n])
NestedUser(i, e, n) ==
    PyDict([data |-> PyDict([id |-> i,
                             attributes |-> PyDict([email |-> e, name |-> n])])])

UserNames == {PyStr("A"), PyStr(""), PyNone}

\* The values a raw incident's user-reference attribute takes.
UserForms ==
    {Absent, PyNone, EmptyDict, PyStr("bob"),
     PyDict([data |-> PyNone]),
     PyDict([data |-> PyDict([id |-> PyInt(5)])]),
     PyDict([data |-> PyDict([attributes |-> PyNone])]),
     PyDict([data |-> PyDict([id |-> PyInt(5),
                              attributes |-> PyDict([email |-> PyStr("a@b.com"),
                                                     name |-> PyStr(""),
                                                     full_name |-> PyStr("Full")])])])}
    \cup {FlatUser(PyInt(5), PyStr("a@b.com"), n) : n \in UserNames}
    \cup {NestedUser(PyInt(5), PyStr("a@b.com"), n) : n \in UserNames}

\* What the other three user-reference attributes are while one is varied.
OtherUserForms == {Absent, PyNone, FlatUser(PyInt(6), PyStr("c@d.com"), PyStr("C"))}

\* The remaining attributes: every plain field and fields the slim record does
\* not keep, or a few fields with null and empty values.
PlainFull ==
    [k \in PlainFields \cup {"description", "labels"} |->
        IF k = "sequential_id" THEN PyInt(12) ELSE PyStr(k)]
PlainSparse == [title |-> PyNone, status |-> PyStr(""), summary |-> PyStr("s")]
PlainForms == {PlainFull, PlainSparse}

\* A raw incident whose user-reference field f is uf, the other three ou.
RawIncident(sev, f, uf, ou, plain) ==
    PyDict([id |-> PyStr("inc-1"),
            type |-> PyStr("incidents"),
            relationships |-> EmptyDict,
            attributes |->
                PyDict([k \in (DOMAIN plain)
                               \cup (IF sev = Absent THEN {} ELSE {"severity"})
                               \cup (IF uf = Absent THEN {} ELSE {f})
                               \cup (IF ou = Absent THEN {} ELSE UserFields \ {f}) |->
                            IF k = "severity" THEN sev
                            ELSE IF k = f THEN uf
                            ELSE IF k \in UserFields THEN ou
                            ELSE plain[k]])])

\* Inputs that are no incident mapping, or lack a usable attributes mapping.
OddIncidents ==
    {PyNone, EmptyDict, PyStr("raw"),
     PyDict([id |-> PyStr("inc-2")]),
     PyDict([id |-> PyStr("inc-3"), attributes |-> PyNone])}

RawIncidents ==
    OddIncidents
    \cup {RawIncident(sev, f, uf, ou, plain) :
            sev \in SeverityForms, f \in UserFields, uf \in UserForms,
            ou \in OtherUserForms, plain \in PlainForms}

\* The records batches are made of.
BatchIncidents ==
    {PyNone, EmptyDict,
     PyDict([id |-> PyStr("inc-2")]),
     PyDict([id |-> PyStr("inc-3"), attributes |-> PyNone]),
     RawIncident(NestedSeverity(PyStr("SEV1")), "user",
                 NestedUser(PyInt(5), PyStr("a@b.com"), PyStr("A")), PyNone, PlainFull)}

Batches == {PyList(q) : q \in UNION {[1..n -> BatchIncidents] : n \in 0..MaxBatch}}

\* ------------------------------------------------- template storage contents

Results1 == PyDict([team_health |-> PyInt(70)])
Results2 == PyDict([team_health |-> PyInt(40)])

\* A template as export_analysis.py writes it.
TemplateA ==
    PyDict([analysis |-> PyDict([config |-> PyDict([foo |-> PyInt(1)]),
                                 platform |-> PyStr("pagerduty"),
                                 time_range |-> PyInt(30),
                                 results |-> Results1])])

\* A template exported from an analysis that was itself a demo: its config
\* already carries the demo markers.
TemplateB ==
    PyDict([analysis |-> PyDict([config |-> PyDict([foo |-> PyInt(2),
                                                    is_demo |-> PyBool(TRUE),
                                                    demo_created_at |-> PyStr("2025-01-01T00:00:00"),
                                                    demo_note |-> PyStr("old note")]),
                                 platform |-> PyStr("rootly"),
                                 time_range |-> PyInt(7),
                                 results |-> Results2])])

\* A template whose analysis has no config, platform, time_range or results.
TemplateBare == PyDict([analysis |-> EmptyDict])

\* A template whose analysis has a null config.
TemplateNullConfig ==
    PyDict([analysis |-> PyDict([config |-> PyNone,
                                 platform |-> PyStr("rootly"),
                                 time_range |-> PyInt(7),
                                 results |-> Results2])])

\* A JSON document with no "analysis" key.
TemplateNoAnalysis == PyDict([version |-> PyInt(1)])

Templates ==
    {TemplateA, TemplateB, TemplateBare, TemplateNullConfig, TemplateNoAnalysis}

\* What mock_analysis_data.json can be: absent, not JSON, or a JSON document.
FileAbsent == [kind |-> "absent"]
FileMalformed == [kind |-> "malformed"]
FileDoc(d) == [kind |-> "doc", doc |-> d]
StorageStates == {FileAbsent, FileMalformed} \cup {FileDoc(d) : d \in Templates}

\* ------------------------------------------------------------ users and rows

NumUsers == 2
Users == 1..NumUsers

\* The User object of user u; odd users belong to an organization, even users
\* carry no organization_id attribute.
UserObj(u) ==
    IF u % 2 = 1 THEN [id |-> u, organization_id |-> PyInt(100 + u)] ELSE [id |-> u]

\* An Analysis row that is not a demo (created by a real analysis run).
PriorRow(u, cfg) ==
    [user_id |-> u, organization_id |-> PyNone, rootly_integration_id |-> PyInt(5),
     integration_name |-> PyStr("Production"), platform |-> PyStr("rootly"),
     time_range |-> PyInt(30), status |-> PyStr("completed"), config |-> cfg,
     results |-> Results2, error_message |-> PyNone, completed_at |-> PyNone]

\* Configs of rows that exist before any provisioning: none of them a demo.
PriorConfigs == {PyNone, PyDict([is_demo |-> PyBool(FALSE)])}

\* The analyses table before the first provision call.
InitStores == {<<>>} \cup {<<PriorRow(1, c)>> : c \in PriorConfigs}

Procs == {"p1", "p2"}

\* Return values that are not Python values.
NoRet == [t |-> "noret"]
NoCall == [t |-> "nocall"]

VARIABLES
    storage,        \* mock_analysis_data.json
    cache,          \* _MOCK_DATA_CACHE
    readLog,        \* storage reads since the last clear: TRUE for a read that succeeded
    afterClear,     \* a clear() completed and no _load_mock_data call started since
    store,          \* committed rows of the analyses table, in insertion order
    pending,        \* per session: rows added and not yet committed
    pc,             \* per invocation: its position
    op,             \* per invocation: "provision", "get_template" or "none"
    user,           \* per invocation: the user argument
    data,           \* per invocation: data of _load_mock_data, mock_data of its caller
    analysis,       \* per invocation: the Analysis object built
    ret,            \* per invocation: the value returned, or Raised
    trace,          \* per invocation: the steps performed so far
    before,         \* per invocation: the user's rows and demo records when it started
    first,          \* per invocation: it is the first load started after a clear()
    last,           \* summary of the last completed call
    ncalls,         \* calls started so far
    incident,       \* slim_incident's argument
    slimmed,        \* slim_incident's result
    incidents,      \* slim_incidents' argument
    slimmedAll      \* slim_incidents' result

provVars == <<storage, cache, readLog, afterClear, store, pending, pc, op, user,
              data, analysis, ret, trace, before, first, last, ncalls>>

slimVars == <<incident, slimmed, incidents, slimmedAll>>

vars == <<provVars, slimVars>>

\* ------------------------------------------------------------ pure helpers

\* The body of _has_demo_analysis's loop: the row counts as a demo.
IsDemoRow(row) ==
    /\ Truthy(row.config)
    /\ IsDict(row.config)
    /\ Get(row.config, "is_demo") = PyBool(TRUE)

\* Mutant of HasDemoAnalysis: the scan tests a misspelt marker key.
HasDemoAnalysis_WrongKey(rows, u) ==
    \E i \in 1..Len(rows) :
        /\ rows[i].user_id = u
        /\ Truthy(rows[i].config)
        /\ IsDict(rows[i].config)
        /\ Get(rows[i].config, "demo") = PyBool(TRUE)

\* Mutant of HasDemoAnalysis: the query has no user_id filter.
HasDemoAnalysis_AnyUser(rows, u) ==
    \E i \in 1..Len(rows) : IsDemoRow(rows[i])

\* _has_demo_analysis on the rows the query returned.
HasDemoAnalysis(rows, u) ==
    \E i \in 1..Len(rows) : rows[i].user_id = u /\ IsDemoRow(rows[i])

\* datetime.now(): an opaque timestamp.
Now == [t |-> "time"]

DemoNote == PyStr("This is a sample analysis to help you explore the platform")

\* The config of the demo record: a copy of the template's config plus markers.
DemoConfig(original, now) ==
    SetKey(SetKey(SetKey(GetOr(original, "config", EmptyDict),
                         "is_demo", PyBool(TRUE)),
                  "demo_created_at", now),
           "demo_note", DemoNote)

\* Mutant of BuildRecord: platform and time_range are hard-coded instead of
\* taken from the template.
BuildRecord_HardCoded(u, original, now) ==
    [user_id |-> UserObj(u).id,
     organization_id |-> IF "organization_id" \in DOMAIN UserObj(u)
                         THEN UserObj(u).organization_id ELSE PyNone,
     rootly_integration_id |-> PyNone,
     integration_name |-> PyStr("Demo Analysis"),
     platform |-> PyStr("pagerduty"),
     time_range |-> PyInt(30),
     status |-> PyStr("completed"),
     config |-> DemoConfig(original, now),
     results |-> Get(original, "results"),
     error_message |-> PyNone,
     completed_at |-> now]

\* Analysis(...) as create_demo_analysis_for_new_user builds it.
BuildRecord(u, original, now) ==
    [user_id |-> UserObj(u).id,
     organization_id |-> IF "organization_id" \in DOMAIN UserObj(u)
                         THEN UserObj(u).organization_id ELSE PyNone,
     rootly_integration_id |-> PyNone,
     integration_name |-> PyStr("Demo Analysis"),
     platform |-> GetOr(original, "platform", PyStr("pagerduty")),
     time_range |-> GetOr(original, "time_range", PyInt(30)),
     status |-> PyStr("completed"),
     config |-> DemoConfig(original, now),
     results |-> Get(original, "results"),
     error_message |-> PyNone,
     completed_at |-> now]

\* The row's config is a mapping with is_demo = true (the demo marker).
DemoMarked(row) ==
    /\ row.config.t = "dict"
    /\ "is_demo" \in DOMAIN row.config.v
    /\ row.config.v["is_demo"] = PyBool(TRUE)

\* Number of demo records of user u among rows.
DemoCount(rows, u) ==
    Cardinality({i \in 1..Len(rows) : rows[i].user_id = u /\ DemoMarked(rows[i])})

\* Number of rows of user u among rows.
RowCount(rows, u) == Cardinality({i \in 1..Len(rows) : rows[i].user_id = u})

Counts(rows, u) == [rows |-> RowCount(rows, u), demos |-> DemoCount(rows, u)]
NoCount == [rows |-> 0, demos |-> 0]

\* Step ev is among the steps tr.
Did(tr, ev) == \E i \in 1..Len(tr) : tr[i] = ev

\* ------------------------------------------------------------------ state

\* The service's state when the process has started, the template file being
\* st and the analyses table holding rows.
ServiceInit(st, rows) ==
    /\ storage = st
    /\ cache = PyNone
    /\ readLog = <<>>
    /\ afterClear = FALSE
    /\ store = rows
    /\ pending = [p \in Procs |-> <<>>]
    /\ pc = [p \in Procs |-> "idle"]
    /\ op = [p \in Procs |-> "none"]
    /\ user = [p \in Procs |-> 0]
    /\ data = [p \in Procs |-> PyNone]
    /\ analysis = [p \in Procs |-> PyNone]
    /\ ret = [p \in Procs |-> NoRet]
    /\ trace = [p \in Procs |-> <<>>]
    /\ before = [p \in Procs |-> NoCount]
    /\ first = [p \in Procs |-> FALSE]
    /\ last = NoCall
    /\ ncalls = 0

\* No call of the compaction transform is under way.
SlimUnused ==
    /\ incident = NoRet
    /\ slimmed = NoRet
    /\ incidents = NoRet
    /\ slimmedAll = NoRet

Init ==
    /\ \E st \in StorageStates, rows \in InitStores : ServiceInit(st, rows)
    /\ SlimUnused

\* The invocation moves to position to, having performed step ev.
Goto(p, to, ev) ==
    /\ pc' = [pc EXCEPT ![p] = to]
    /\ trace' = [trace EXCEPT ![p] = Append(@, ev)]

\* The invocation ends returning value r (or raising, r = Raised).
Finish(p, r, ev) ==
    /\ Goto(p, "done", ev)
    /\ ret' = [ret EXCEPT ![p] = r]

\* ----------------------------------------------------- _load_mock_data steps

\* _load_mock_data returns d to its caller: get_template's caller gets it,
\* create_demo_analysis_for_new_user goes on to build the record.
LoadReturns(p, d, ev) ==
    IF op[p] = "get_template"
    THEN Finish(p, d, ev)
    ELSE Goto(p, "build", ev) /\ UNCHANGED ret

\* Mutant of LoadRaises: the provisioner returns False on a failed load
\* without entering its except block.
LoadRaises_NoRollback(p, ev) ==
    IF op[p] = "get_template"
    THEN Finish(p, Raised, ev)
    ELSE Finish(p, PyBool(FALSE), ev)

\* _load_mock_data re-raises: get_template's caller sees the error,
\* create_demo_analysis_for_new_user enters its except block.
LoadRaises(p, ev) ==
    IF op[p] = "get_template"
    THEN Finish(p, Raised, ev)
    ELSE Goto(p, "rollback", ev) /\ UNCHANGED ret

\* Bookkeeping at the first statement of _load_mock_data.  The provisioner's
\* call of it starts here; a call from outside started with StartGet.
LoadStarts(p) ==
    IF op[p] = "provision"
    THEN first' = [first EXCEPT ![p] = afterClear] /\ afterClear' = FALSE
    ELSE UNCHANGED <<first, afterClear>>

\* Mutant of LoadCheck: a load that finds the slot empty puts an empty
\* document there before it reads the file.
LoadCheck_ReservesSlot(p) ==
    /\ UNCHANGED slimVars
    /\ pc[p] = "load_check"
    /\ LoadStarts(p)
    /\ IF cache # PyNone
       THEN /\ data' = [data EXCEPT ![p] = cache]
            /\ LoadReturns(p, cache, "cache_hit")
            /\ UNCHANGED cache
       ELSE /\ Goto(p, "load_read", "cache_miss")
            /\ cache' = EmptyDict
            /\ UNCHANGED <<data, ret>>
    /\ UNCHANGED <<storage, readLog, store, pending, op, user, analysis,
                   before, last, ncalls>>

\* if _MOCK_DATA_CACHE is not None: return it.
LoadCheck(p) ==
    /\ UNCHANGED slimVars
    /\ pc[p] = "load_check"
    /\ LoadStarts(p)
    /\ IF cache # PyNone
       THEN /\ data' = [data EXCEPT ![p] = cache]
            /\ LoadReturns(p, cache, "cache_hit")
       ELSE /\ Goto(p, "load_read", "cache_miss")
            /\ UNCHANGED <<data, ret>>
    /\ UNCHANGED <<storage, cache, readLog, store, pending, op, user, analysis,
                   before, last, ncalls>>

\* Mutant of LoadRead: a failed load leaves an empty document in the slot.
LoadRead_PoisonsCache(p) ==
    /\ UNCHANGED slimVars
    /\ pc[p] = "load_read"
    /\ readLog' = Append(readLog, storage.kind = "doc")
    /\ IF storage.kind = "doc"
       THEN /\ data' = [data EXCEPT ![p] = storage.doc]
            /\ Goto(p, "load_store", "read")
            /\ UNCHANGED <<ret, cache>>
       ELSE /\ LoadRaises(p, "read_fail")
            /\ cache' = EmptyDict
            /\ UNCHANGED data
    /\ UNCHANGED <<storage, afterClear, store, pending, op, user, analysis,
                   before, first, last, ncalls>>

\* The try block: exists(), open(), json.load().
LoadRead(p) ==
    /\ UNCHANGED slimVars
    /\ pc[p] = "load_read"
    /\ readLog' = Append(readLog, storage.kind = "doc")
    /\ IF storage.kind = "doc"
       THEN /\ data' = [data EXCEPT ![p] = storage.doc]
            /\ Goto(p, "load_store", "read")
            /\ UNCHANGED ret
       ELSE /\ LoadRaises(p, "read_fail")
            /\ UNCHANGED data
    /\ UNCHANGED <<storage, cache, afterClear, store, pending, op, user, analysis,
                   before, first, last, ncalls>>

\* Mutant of LoadStore: the data is returned without being cached.
LoadStore_NoCache(p) ==
    /\ UNCHANGED slimVars
    /\ pc[p] = "load_store"
    /\ LoadReturns(p, data[p], "cache_store")
    /\ UNCHANGED <<storage, cache, readLog, afterClear, store, pending, op, user,
                   data, analysis, before, first, last, ncalls>>

\* _MOCK_DATA_CACHE = data; return data.
LoadStore(p) ==
    /\ UNCHANGED slimVars
    /\ pc[p] = "load_store"
    /\ cache' = data[p]
    /\ LoadReturns(p, data[p], "cache_store")
    /\ UNCHANGED <<storage, readLog, afterClear, store, pending, op, user, data,
                   analysis, before, first, last, ncalls>>

\* clear_mock_data_cache().
Clear ==
    /\ UNCHANGED slimVars
    /\ cache' = PyNone
    /\ readLog' = <<>>
    /\ afterClear' = TRUE
    /\ UNCHANGED <<storage, store, pending, pc, op, user, data, analysis, ret,
                   trace, before, first, last, ncalls>>

\* A call of _load_mock_data from outside the provisioner (get_template).
StartGet(p) ==
    /\ UNCHANGED slimVars
    /\ pc[p] = "idle"
    /\ ncalls < MaxCalls
    /\ ncalls' = ncalls + 1
    /\ pc' = [pc EXCEPT ![p] = "load_check"]
    /\ op' = [op EXCEPT ![p] = "get_template"]
    /\ first' = [first EXCEPT ![p] = afterClear]
    /\ afterClear' = FALSE
    /\ UNCHANGED <<storage, cache, readLog, store, pending, user, data,
                   analysis, ret, trace, before, last>>

\* The file is replaced, removed or corrupted.
SetStorage(s) ==
    /\ UNCHANGED slimVars
    /\ s # storage
    /\ storage' = s
    /\ UNCHANGED <<cache, readLog, afterClear, store, pending, pc, op, user, data,
                   analysis, ret, trace, before, first, last, ncalls>>

\* ------------------------------------ create_demo_analysis_for_new_user steps

\* provision(user) is called with session p.
StartProvision(p, u) ==
    /\ UNCHANGED slimVars
    /\ pc[p] = "idle"
    /\ ncalls < MaxCalls
    /\ ncalls' = ncalls + 1
    /\ pc' = [pc EXCEPT ![p] = "check"]
    /\ op' = [op EXCEPT ![p] = "provision"]
    /\ user' = [user EXCEPT ![p] = u]
    /\ before' = [before EXCEPT ![p] = Counts(store, u)]
    /\ UNCHANGED <<storage, cache, readLog, afterClear, store, pending, data,
                   analysis, ret, trace, first, last>>

\* if _has_demo_analysis(db, user.id): return False.  The query may raise.
CheckExisting(p) ==
    /\ UNCHANGED slimVars
    /\ pc[p] = "check"
    /\ \/ Goto(p, "rollback", "query_fail") /\ UNCHANGED ret
       \/ IF HasDemoAnalysis(store, user[p])
          THEN Finish(p, PyBool(FALSE), "exists")
          ELSE Goto(p, "load_check", "query") /\ UNCHANGED ret
    /\ UNCHANGED <<storage, cache, readLog, afterClear, store, pending, op, user,
                   data, analysis, before, first, last, ncalls>>

\* original_analysis = mock_data['analysis'], the config copy, Analysis(...).
\* A missing 'analysis' key raises KeyError, a null config AttributeError.
BuildOk(mock) ==
    /\ HasKey(mock, "analysis")
    /\ IsDict(GetOr(mock.v["analysis"], "config", EmptyDict))

\* Mutant of Build: the markers are written into the template's own config
\* (no copy is taken), that is, into the object the slot holds.
Build_WritesTemplate(p) ==
    /\ UNCHANGED slimVars
    /\ pc[p] = "build"
    /\ IF BuildOk(data[p])
       THEN /\ analysis' = [analysis EXCEPT
                   ![p] = BuildRecord(user[p], data[p].v["analysis"], Now)]
            /\ cache' = SetKey(data[p], "analysis",
                               SetKey(data[p].v["analysis"], "config",
                                      DemoConfig(data[p].v["analysis"], Now)))
            /\ Goto(p, "add", "build")
       ELSE /\ Goto(p, "rollback", "build_fail")
            /\ UNCHANGED <<analysis, cache>>
    /\ UNCHANGED <<storage, readLog, afterClear, store, pending, op, user,
                   data, ret, before, first, last, ncalls>>

Build(p) ==
    /\ UNCHANGED slimVars
    /\ pc[p] = "build"
    /\ IF BuildOk(data[p])
       THEN /\ analysis' = [analysis EXCEPT
                   ![p] = BuildRecord(user[p], data[p].v["analysis"], Now)]
            /\ Goto(p, "add", "build")
       ELSE /\ Goto(p, "rollback", "build_fail")
            /\ UNCHANGED analysis
    /\ UNCHANGED <<storage, cache, readLog, afterClear, store, pending, op, user,
                   data, ret, before, first, last, ncalls>>

\* db.add(analysis): the row joins the session's pending rows, or add raises.
Add(p) ==
    /\ UNCHANGED slimVars
    /\ pc[p] = "add"
    /\ \/ /\ pending' = [pending EXCEPT ![p] = Append(@, analysis[p])]
          /\ Goto(p, "commit", "add")
       \/ /\ Goto(p, "rollback", "add_fail")
          /\ UNCHANGED pending
    /\ UNCHANGED <<storage, cache, readLog, afterClear, store, op, user, data,
                   analysis, ret, before, first, last, ncalls>>

\* Mutant of Commit: the table keeps one demo record per user, a commit
\* replaces the one the user has.
Commit_ReplacesDemo(p) ==
    /\ UNCHANGED slimVars
    /\ pc[p] = "commit"
    /\ \/ /\ LET Keep(r) == r.user_id # user[p] \/ ~DemoMarked(r)
             IN store' = SelectSeq(store, Keep) \o pending[p]
          /\ pending' = [pending EXCEPT ![p] = <<>>]
          /\ Goto(p, "refresh", "commit")
       \/ /\ Goto(p, "rollback", "commit_fail")
          /\ UNCHANGED <<store, pending>>
    /\ UNCHANGED <<storage, cache, readLog, afterClear, op, user, data, analysis,
                   ret, before, first, last, ncalls>>

\* db.commit(): every pending row of the session becomes durable, or none does
\* and commit raises.
Commit(p) ==
    /\ UNCHANGED slimVars
    /\ pc[p] = "commit"
    /\ \/ /\ store' = store \o pending[p]
          /\ pending' = [pending EXCEPT ![p] = <<>>]
          /\ Goto(p, "refresh", "commit")
       \/ /\ Goto(p, "rollback", "commit_fail")
          /\ UNCHANGED <<store, pending>>
    /\ UNCHANGED <<storage, cache, readLog, afterClear, op, user, data, analysis,
                   ret, before, first, last, ncalls>>

\* db.refresh(analysis), the log line, return True; refresh may raise.
Refresh(p) ==
    /\ UNCHANGED slimVars
    /\ pc[p] = "refresh"
    /\ \/ Finish(p, PyBool(TRUE), "refresh")
       \/ Goto(p, "rollback", "refresh_fail") /\ UNCHANGED ret
    /\ UNCHANGED <<storage, cache, readLog, afterClear, store, pending, op, user,
                   data, analysis, before, first, last, ncalls>>

\* Mutant of RollbackFailed: the rollback error escapes to the caller.
RollbackFailed_Propagates(p) == Finish(p, Raised, "rollback_fail")

\* What the except block returns when db.rollback() itself raised.
RollbackFailed(p) == Finish(p, PyBool(FALSE), "rollback_fail")

\* Mutant of Rollback: the except block returns False without rolling back.
Rollback_Missing(p) ==
    /\ UNCHANGED slimVars
    /\ pc[p] = "rollback"
    /\ Finish(p, PyBool(FALSE), "rollback")
    /\ UNCHANGED <<storage, cache, readLog, afterClear, store, pending, op, user,
                   data, analysis, before, first, last, ncalls>>

\* The except block: db.rollback() discards the session's uncommitted rows
\* (also when the call raises: the session drops its pending objects before
\* re-raising), then return False.
Rollback(p) ==
    /\ UNCHANGED slimVars
    /\ pc[p] = "rollback"
    /\ pending' = [pending EXCEPT ![p] = <<>>]
    /\ \/ Finish(p, PyBool(FALSE), "rollback")
       \/ RollbackFailed(p)
    /\ UNCHANGED <<storage, cache, readLog, afterClear, store, op, user, data,
                   analysis, before, first, last, ncalls>>

\* Summary of a completed call.
Summary(p) ==
    [t |-> "call", op |-> op[p], user |-> user[p], ret |-> ret[p],
     trace |-> trace[p], before |-> before[p], after |-> Counts(store, user[p]),
     first |-> first[p]]

\* The caller takes the result; the invocation's locals go away.
Return(p) ==
    /\ UNCHANGED slimVars
    /\ pc[p] = "done"
    /\ last' = Summary(p)
    /\ pc' = [pc EXCEPT ![p] = "idle"]
    /\ op' = [op EXCEPT ![p] = "none"]
    /\ user' = [user EXCEPT ![p] = 0]
    /\ data' = [data EXCEPT ![p] = PyNone]
    /\ analysis' = [analysis EXCEPT ![p] = PyNone]
    /\ ret' = [ret EXCEPT ![p] = NoRet]
    /\ trace' = [trace EXCEPT ![p] = <<>>]
    /\ before' = [before EXCEPT ![p] = NoCount]
    /\ first' = [first EXCEPT ![p] = FALSE]
    /\ UNCHANGED <<storage, cache, readLog, afterClear, store, pending, ncalls>>

\* ------------------------------------------------------------ specification

\* Calls run one after the other, each to completion, in one session.
SeqProc == "p1"

Idle == \A p \in Procs : pc[p] = "idle"

\* The provisioner: provision calls for any users, the template file changing
\* between calls.
Next ==
    \/ \E u \in Users : StartProvision(SeqProc, u)
    \/ CheckExisting(SeqProc)
    \/ LoadCheck(SeqProc)
    \/ LoadRead(SeqProc)
    \/ LoadStore(SeqProc)
    \/ Build(SeqProc)
    \/ Add(SeqProc)
    \/ Commit(SeqProc)
    \/ Refresh(SeqProc)
    \/ Rollback(SeqProc)
    \/ Return(SeqProc)
    \/ Idle /\ \E s \in StorageStates : SetStorage(s)

Spec == Init /\ [][Next]_vars

\* The template cache on its own: get_template and clear calls, the template
\* file changing between calls.
CacheNext ==
    \/ StartGet(SeqProc)
    \/ LoadCheck(SeqProc)
    \/ LoadRead(SeqProc)
    \/ LoadStore(SeqProc)
    \/ Return(SeqProc)
    \/ Idle /\ Clear
    \/ Idle /\ \E s \in StorageStates : SetStorage(s)

SpecCache == Init /\ [][CacheNext]_vars

\* ---------------------------------------------------- concurrent invocations

\* Number of calls made when invocations overlap.
MaxRaceCalls == 2

\* The template files of the concurrent runs: missing, usable, and one that
\* has no analysis.
RaceStorage == {FileAbsent, FileDoc(TemplateA), FileDoc(TemplateNoAnalysis)}

\* The process has started and the analyses table is empty.
RaceInit ==
    /\ \E st \in RaceStorage : ServiceInit(st, <<>>)
    /\ SlimUnused

\* Requests are served by threads, each with a database session of its own:
\* provision calls overlap, their steps interleave in any order.
RaceNext ==
    \E p \in Procs :
        \/ ncalls < MaxRaceCalls /\ \E u \in Users : StartProvision(p, u)
        \/ CheckExisting(p)
        \/ LoadCheck(p)
        \/ LoadRead(p)
        \/ LoadStore(p)
        \/ Build(p)
        \/ Add(p)
        \/ Commit(p)
        \/ Refresh(p)
        \/ Rollback(p)
        \/ Return(p)

SpecRace == RaceInit /\ [][RaceNext]_vars

\* The process has started; the analyses table plays no part.
CacheRaceInit ==
    /\ \E st \in StorageStates : ServiceInit(st, <<>>)
    /\ SlimUnused

\* get_template calls overlap; the file is replaced and clear() is called only
\* while no call is running.
FirstLoadNext ==
    \/ \E p \in Procs :
        \/ StartGet(p)
        \/ LoadCheck(p)
        \/ LoadRead(p)
        \/ LoadStore(p)
        \/ Return(p)
    \/ Idle /\ Clear
    \/ Idle /\ \E s \in StorageStates : SetStorage(s)

SpecFirstLoad == CacheRaceInit /\ [][FirstLoadNext]_vars

\* get_template calls overlap with each other, with clear() and with the
\* replacement of the file: none of them takes a lock.
ClearRaceNext ==
    \/ \E p \in Procs :
        \/ StartGet(p)
        \/ LoadCheck(p)
        \/ LoadRead(p)
        \/ LoadStore(p)
        \/ Return(p)
    \/ Clear
    \/ \E s \in StorageStates : SetStorage(s)

SpecClearRace == CacheRaceInit /\ [][ClearRaceNext]_vars

\* ----------------------------------------------------- compaction transform

\* The transform is about to be applied to one incident, or to one batch.
SlimInit ==
    /\ ServiceInit(FileAbsent, <<>>)
    /\ slimmed = NoRet
    /\ slimmedAll = NoRet
    /\ \/ incident \in RawIncidents /\ incidents = NoRet
       \/ incident = NoRet /\ incidents \in Batches

\* slimmed = slim_incident(incident).
SlimOne ==
    /\ incident # NoRet
    /\ slimmed = NoRet
    /\ slimmed' = SlimIncident(incident)
    /\ UNCHANGED <<provVars, incident, incidents, slimmedAll>>

\* slimmed_incidents = slim_incidents(original_incidents).
SlimBatch ==
    /\ incidents # NoRet
    /\ slimmedAll = NoRet
    /\ slimmedAll' = SlimIncidents(incidents)
    /\ UNCHANGED <<provVars, incident, incidents, slimmed>>

SlimNext == SlimOne \/ SlimBatch

SpecSlim == SlimInit /\ [][SlimNext]_vars

\* ================================================================== claims

\* A provision call for the same user as the call completed just before it,
\* which started when that user had no demo record, has just finished.
SecondCall(p) ==
    /\ pc[p] = "done"
    /\ op[p] = "provision"
    /\ last # NoCall
    /\ last.op = "provision"
    /\ last.user = user[p]
    /\ last.before.demos = 0

\* The call of p returned False and inserted nothing, and its user has exactly
\* one demo record.
SecondCallSkipped(p) ==
    /\ ret[p] = PyBool(FALSE)
    /\ ~Did(trace[p], "add")
    /\ Counts(store, user[p]) = before[p]
    /\ DemoCount(store, user[p]) = 1

\* C1 as stated: for a user with no demo record, two provision calls one after
\* the other leave exactly one demo record; the second call returns False and
\* inserts no record.
C1_Original == \A p \in Procs : SecondCall(p) => SecondCallSkipped(p)

\* C1 as amended: the same, provided the first call's commit succeeded (which
\* includes every first call that returned True).
C1_Idempotent ==
    \A p \in Procs : SecondCall(p) /\ Did(last.trace, "commit") => SecondCallSkipped(p)

C1_Witness ==
    \E p \in Procs : SecondCall(p) /\ last.ret = PyBool(TRUE) /\ SecondCallSkipped(p)

\* C2: starting with no demo records, after any sequence of provision calls,
\* each run to completion and failing at any step, every user has at most one
\* committed record with is_demo = true.
C2_AtMostOneDemo == \A u \in Users : DemoCount(store, u) <= 1

\* A call that got as far as adding its row failed and was followed by a call
\* for the same user that committed.
C2_Witness ==
    \E p \in Procs :
        /\ pc[p] = "done"
        /\ op[p] = "provision"
        /\ last # NoCall
        /\ last.user = user[p]
        /\ Did(last.trace, "commit_fail")
        /\ Did(trace[p], "commit")
        /\ DemoCount(store, user[p]) = 1

\* C3 as stated: a provision call that returns True has inserted exactly one
\* record for the user, and one that returns False has left no new committed
\* record for the user, whichever step failed.
C3_SideEffectsMatchResult ==
    \A p \in Procs :
        pc[p] = "done" /\ op[p] = "provision" =>
            /\ ret[p] = PyBool(TRUE) =>
                   RowCount(store, user[p]) = before[p].rows + 1
            /\ ret[p] = PyBool(FALSE) =>
                   RowCount(store, user[p]) = before[p].rows

\* C4: every provision invocation ends by returning a boolean and never
\* raises, whichever step failed; when the rollback itself fails the result is
\* False.  An invocation that has not returned can always take its next step,
\* and it takes at most nine steps.
C4_FailureBoundary ==
    \A p \in Procs :
        op[p] = "provision" =>
            /\ pc[p] = "done" => ret[p] \in {PyBool(TRUE), PyBool(FALSE)}
            /\ pc[p] = "done" /\ Did(trace[p], "rollback_fail") => ret[p] = PyBool(FALSE)
            /\ pc[p] # "done" => ret[p] = NoRet /\ ENABLED Next
            /\ Len(trace[p]) <= 9

C4_Witness ==
    \E p \in Procs :
        /\ pc[p] = "done"
        /\ op[p] = "provision"
        /\ Did(trace[p], "commit_fail")
        /\ Did(trace[p], "rollback_fail")
        /\ ret[p] = PyBool(FALSE)

\* Number of reads in log that succeeded.
RECURSIVE OkReads(_)
OkReads(log) ==
    IF log = <<>> THEN 0
    ELSE (IF log[Len(log)] THEN 1 ELSE 0) + OkReads(SubSeq(log, 1, Len(log) - 1))

\* The first load started after a clear() has finished, having read storage
\* exactly once.
ReadsOnceAfterClear(p) ==
    pc[p] = "done" /\ first[p] =>
        /\ Did(trace[p], "read") \/ Did(trace[p], "read_fail")
        /\ ~Did(trace[p], "cache_hit")

\* C5 as stated: get_template calls with no clear() between them perform at
\* most one storage read in total; after a clear() the next call performs
\* exactly one more read.
C5_Original ==
    /\ Len(readLog) <= 1
    /\ \A p \in Procs : ReadsOnceAfterClear(p)

\* C5 as amended: get_template calls with no clear() between them perform at
\* most one storage read that succeeds, and no read at all after it (a call
\* whose read fails leaves the slot empty, so the next call reads again);
\* after a clear() the next call performs exactly one more read.
C5_CacheCorrect ==
    /\ OkReads(readLog) <= 1
    /\ \A i \in 1..Len(readLog) : readLog[i] => i = Len(readLog)
    /\ \A p \in Procs : ReadsOnceAfterClear(p)

\* A call served from the slot, after the reload that followed a clear().
C5_Witness ==
    \E p \in Procs :
        /\ pc[p] = "done"
        /\ Did(trace[p], "cache_hit")
        /\ readLog = <<TRUE>>
        /\ last # NoCall
        /\ last.first
        /\ Did(last.trace, "read")

\* C6: a get_template call whose load fails signals an error and leaves the
\* slot empty; the next get_template call, made when the file is readable,
\* loads the file and returns its content.
C6_LoadFailureRetry ==
    \A p \in Procs :
        pc[p] = "done" /\ op[p] = "get_template" =>
            /\ Did(trace[p], "read_fail") => ret[p] = Raised /\ cache = PyNone
            /\ (last # NoCall /\ last.op = "get_template" /\ last.ret = Raised
                /\ storage.kind = "doc") =>
                   /\ ret[p] = storage.doc
                   /\ cache = storage.doc
                   /\ Did(trace[p], "read")

C6_Witness ==
    \E p \in Procs :
        /\ pc[p] = "done"
        /\ op[p] = "get_template"
        /\ last # NoCall
        /\ last.op = "get_template"
        /\ last.ret = Raised
        /\ storage.kind = "doc"
        /\ ret[p] = storage.doc
        /\ cache = ret[p]

\* The keys provision writes into the config of a demo record.
DemoKeys == {"is_demo", "demo_created_at", "demo_note"}

\* The fields of row that do not depend on the template, and those copied from
\* the template's analysis tmpl where it has them.
FixedAndCopiedFields(row, u, tmpl) ==
    /\ row.user_id = u
    /\ row.rootly_integration_id = PyNone
    /\ row.integration_name = PyStr("Demo Analysis")
    /\ row.status = PyStr("completed")
    /\ row.error_message = PyNone
    /\ "platform" \in DOMAIN tmpl.v => row.platform = tmpl.v["platform"]
    /\ "time_range" \in DOMAIN tmpl.v => row.time_range = tmpl.v["time_range"]
    /\ "results" \in DOMAIN tmpl.v => row.results = tmpl.v["results"]
    /\ row.config.t = "dict"
    /\ row.config.v["is_demo"] = PyBool(TRUE)

\* The config of row has the keys of the template's config plus the demo keys,
\* and the template's value under every key of keep.
ConfigFrom(row, tmplKeys, tmplConfig, keep) ==
    /\ DOMAIN row.config.v = tmplKeys \cup DemoKeys
    /\ \A k \in keep : row.config.v[k] = tmplConfig[k]

\* The keys and values of the config of the template's analysis tmpl.
ConfigKeys(tmpl) ==
    IF "config" \in DOMAIN tmpl.v THEN DOMAIN tmpl.v["config"].v ELSE {}

\* The invocation of p has just committed its row.
JustInserted(p) == pc[p] = "refresh" /\ Len(store) > 0

\* C7 as stated: every record provision inserts has the fixed fields, the
\* template's platform, time_range and results, and a config that keeps every
\* template key with its value and adds is_demo = true, demo_created_at and
\* demo_note.
C7_Original ==
    \A p \in Procs :
        JustInserted(p) =>
            LET row == store[Len(store)]
                tmpl == data[p].v["analysis"]
            IN /\ FixedAndCopiedFields(row, user[p], tmpl)
               /\ ConfigFrom(row, ConfigKeys(tmpl),
                             IF "config" \in DOMAIN tmpl.v
                             THEN tmpl.v["config"].v ELSE <<>>,
                             ConfigKeys(tmpl))

\* What the row carries for the keys that the template's analysis tmpl lacks.
DefaultedFields(row, tmpl) ==
    /\ "platform" \notin DOMAIN tmpl.v => row.platform = PyStr("pagerduty")
    /\ "time_range" \notin DOMAIN tmpl.v => row.time_range = PyInt(30)
    /\ "results" \notin DOMAIN tmpl.v => row.results = PyNone

\* C7 as amended: the same, except that the three demo keys always carry the
\* values provision writes: a template key named is_demo, demo_created_at or
\* demo_note is overwritten, every other template key is kept with its value.
\* Where the template lacks platform, time_range or results, the row carries
\* "pagerduty", 30 and null.
C7_RecordFromTemplate ==
    \A p \in Procs :
        JustInserted(p) =>
            LET row == store[Len(store)]
                tmpl == data[p].v["analysis"]
            IN /\ FixedAndCopiedFields(row, user[p], tmpl)
               /\ ConfigFrom(row, ConfigKeys(tmpl),
                             IF "config" \in DOMAIN tmpl.v
                             THEN tmpl.v["config"].v ELSE <<>>,
                             ConfigKeys(tmpl) \ DemoKeys)
               /\ DefaultedFields(row, tmpl)
               /\ row.config.v["demo_note"] = DemoNote
               /\ row.config.v["demo_created_at"] = Now

\* A record built from the template of the spec's scenario has been inserted.
C7_Witness ==
    \E p \in Procs :
        /\ JustInserted(p)
        /\ data[p] = TemplateA
        /\ store[Len(store)].config.v["foo"] = PyInt(1)
        /\ store[Len(store)].platform = PyStr("pagerduty")
        /\ store[Len(store)].time_range = PyInt(30)

\* slim_incidents returned a list.
BatchSlimmed == slimmedAll # NoRet /\ slimmedAll # Raised /\ slimmedAll.t = "list"

\* C8: slim_incidents is a 1:1 positional map: the output has the input's
\* length (also for the empty input), output[i] is slim_incident(input[i]),
\* and a slimmed record keeps the id of the record at its position.
C8_PositionalMap ==
    /\ (slimmedAll # NoRet /\ incidents = PyList(<<>>)) => slimmedAll = PyList(<<>>)
    /\ BatchSlimmed =>
        /\ Len(slimmedAll.v) = Len(incidents.v)
        /\ \A i \in 1..Len(incidents.v) :
            /\ slimmedAll.v[i] = SlimIncident(incidents.v[i])
            /\ IsDict(incidents.v[i]) /\ Truthy(incidents.v[i]) =>
                   slimmedAll.v[i].v["id"] = incidents.v[i].v["id"]

\* A batch of a pass-through record and a full incident has been slimmed.
C8_Witness ==
    /\ BatchSlimmed
    /\ Len(incidents.v) = 2
    /\ incidents.v[1] = PyNone
    /\ slimmedAll.v[1] = PyNone
    /\ IsDict(slimmedAll.v[2])
    /\ HasKey(slimmedAll.v[2], "attributes")

\* slim_incident returned a slim record for a non-empty mapping.
OneSlimmed ==
    /\ slimmed # NoRet
    /\ slimmed # Raised
    /\ IsDict(incident)
    /\ Truthy(incident)

\* The raw incident of the spec's pruning scenario: an enveloped severity
\* SEV1 and all four user fields null.
PruningScenario ==
    /\ IsDict(incident)
    /\ HasKey(incident, "attributes")
    /\ IsDict(incident.v["attributes"])
    /\ Get(incident.v["attributes"], "severity") = NestedSeverity(PyStr("SEV1"))
    /\ \A f \in UserFields :
        /\ HasKey(incident.v["attributes"], f)
        /\ incident.v["attributes"].v[f] = PyNone

\* C9: for a mapping input the output's attributes mapping has only keys of
\* the slim field list and no null value; in the pruning scenario it has
\* severity "SEV1" and none of the four user keys.
C9_FieldPruning ==
    OneSlimmed =>
        /\ IsDict(slimmed)
        /\ HasKey(slimmed, "attributes")
        /\ IsDict(slimmed.v["attributes"])
        /\ DOMAIN slimmed.v["attributes"].v \subseteq SlimFields
        /\ \A k \in DOMAIN slimmed.v["attributes"].v :
               slimmed.v["attributes"].v[k] # PyNone
        /\ PruningScenario =>
            /\ HasKey(slimmed.v["attributes"], "severity")
            /\ slimmed.v["attributes"].v["severity"] = PyStr("SEV1")
            /\ DOMAIN slimmed.v["attributes"].v \cap UserFields = {}

C9_Witness == OneSlimmed /\ PruningScenario

\* A user reference in flat form: exactly the keys id, email and name.
IsFlatUser(x) == IsDict(x) /\ DOMAIN x.v = {"id", "email", "name"}

\* The incident's severity is a plain string and its user-reference fields
\* are in flat form (or null, or absent), at least one being present.
FlatForm(inc) ==
    /\ IsDict(inc)
    /\ HasKey(inc, "attributes")
    /\ IsDict(inc.v["attributes"])
    /\ HasKey(inc.v["attributes"], "severity")
    /\ IsStr(inc.v["attributes"].v["severity"])
    /\ \A f \in UserFields :
           HasKey(inc.v["attributes"], f) =>
               \/ inc.v["attributes"].v[f] = PyNone
               \/ IsFlatUser(inc.v["attributes"].v[f])
    /\ \E f \in UserFields :
           /\ HasKey(inc.v["attributes"], f)
           /\ IsFlatUser(inc.v["attributes"].v[f])

\* The same incident with the severity and the user references in envelope
\* form.
ToNested(inc) ==
    LET attrs == inc.v["attributes"].v
        nested == [k \in DOMAIN attrs |->
                     IF k = "severity" THEN NestedSeverity(attrs[k])
                     ELSE IF k \in UserFields /\ attrs[k] # PyNone
                     THEN NestedUser(attrs[k].v["id"], attrs[k].v["email"],
                                     attrs[k].v["name"])
                     ELSE attrs[k]]
    IN PyDict([k \in DOMAIN inc.v |->
                 IF k = "attributes" THEN PyDict(nested) ELSE inc.v[k]])

\* C10 as stated: an incident in flat form slims to the same output as the
\* incident carrying the same values in envelope form.
C10_Original ==
    (slimmed # NoRet /\ FlatForm(incident)) => slimmed = SlimIncident(ToNested(incident))

\* The values for which the two forms agree: a non-empty severity string, and
\* user names that are non-empty strings or null.
Unambiguous(inc) ==
    /\ inc.v["attributes"].v["severity"] # PyStr("")
    /\ \A f \in UserFields :
           (HasKey(inc.v["attributes"], f) /\ inc.v["attributes"].v[f] # PyNone) =>
               inc.v["attributes"].v[f].v["name"] # PyStr("")

\* C10 as amended: the same, for incidents whose severity string and user
\* names are not empty strings.
C10_ShapeFlexibility ==
    (slimmed # NoRet /\ FlatForm(incident) /\ Unambiguous(incident)) =>
        slimmed = SlimIncident(ToNested(incident))

\* The spec's scenario: severity a plain string, user {id: 5, email, name}.
C10_Witness ==
    /\ slimmed # NoRet
    /\ slimmed # Raised
    /\ FlatForm(incident)
    /\ Unambiguous(incident)
    /\ incident.v["attributes"].v["severity"] = PyStr("SEV1")
    /\ HasKey(incident.v["attributes"], "user")
    /\ incident.v["attributes"].v["user"] = FlatUser(PyInt(5), PyStr("a@b.com"), PyStr("A"))
    /\ slimmed.v["attributes"].v["severity"] = PyStr("SEV1")
    /\ slimmed.v["attributes"].v["user"] = FlatUser(PyInt(5), PyStr("a@b.com"), PyStr("A"))

\* slim_incident returned without raising.
SlimmedOk == slimmed # NoRet /\ slimmed # Raised

\* The user references a slim record carries: the non-null outputs of
\* slim_user_object.
SlimUsers(rec) ==
    IF IsDict(rec) /\ HasKey(rec, "attributes") /\ IsDict(rec.v["attributes"])
    THEN {rec.v["attributes"].v[f] : f \in UserFields \cap DOMAIN rec.v["attributes"].v}
    ELSE {}

\* slim_user_object applied to its own non-null output returns that output.
C11_UserIdempotent ==
    SlimmedOk => \A u \in SlimUsers(slimmed) : SlimUserObject(u) = u

\* C11 as stated: for every raw incident that is slimmed without error,
\* slimming the output again returns the output unchanged, and
\* slim_user_object applied to its own non-null output returns it unchanged.
C11_Original ==
    /\ SlimmedOk => SlimIncident(slimmed) = slimmed
    /\ C11_UserIdempotent

\* The slim record carries no severity, or a severity that is a non-empty
\* string.
SeverityIsName(rec) ==
    (IsDict(rec) /\ HasKey(rec, "attributes") /\ HasKey(rec.v["attributes"], "severity")) =>
        /\ IsStr(rec.v["attributes"].v["severity"])
        /\ rec.v["attributes"].v["severity"] # PyStr("")

\* C11 as amended: the same, for outputs whose severity, where there is one,
\* is a non-empty string (an envelope whose name is an empty string or not a
\* string is resolved to that value, which a second pass drops).
C11_Idempotent ==
    /\ (SlimmedOk /\ SeverityIsName(slimmed)) => SlimIncident(slimmed) = slimmed
    /\ C11_UserIdempotent

\* An incident with an enveloped severity and an enveloped user has been
\* slimmed to a record that differs from it and that a second pass keeps.
C11_Witness ==
    /\ SlimmedOk
    /\ IsDict(slimmed)
    /\ HasKey(slimmed, "attributes")
    /\ IsDict(incident)
    /\ HasKey(incident, "attributes")
    /\ IsDict(incident.v["attributes"])
    /\ Get(incident.v["attributes"], "severity") = NestedSeverity(PyStr("SEV1"))
    /\ Get(slimmed.v["attributes"], "severity") = PyStr("SEV1")
    /\ Get(incident.v["attributes"], "user")
           = NestedUser(PyInt(5), PyStr("a@b.com"), PyStr("A"))
    /\ Get(slimmed.v["attributes"], "user")
           = FlatUser(PyInt(5), PyStr("a@b.com"), PyStr("A"))
    /\ SlimIncident(slimmed) = slimmed

\* The invocations of p and q, for the same user, both passed the existence
\* check and both have returned, no step of either having failed.
BothPassedCheck(p, q) ==
    /\ p # q
    /\ op[p] = "provision"
    /\ op[q] = "provision"
    /\ user[p] = user[q]
    /\ pc[p] = "done"
    /\ pc[q] = "done"
    /\ \A r \in {p, q} :
        /\ Did(trace[r], "query")
        /\ \A ev \in {"read_fail", "build_fail", "add_fail", "commit_fail",
                      "refresh_fail"} : ~Did(trace[r], ev)

\* C12: two provision invocations for the same user whose existence checks
\* both complete before either commits (so both find no demo record) both
\* insert and both return True, and the user has two demo records.
C12_CheckThenInsertRace ==
    \A p, q \in Procs :
        BothPassedCheck(p, q) =>
            /\ ret[p] = PyBool(TRUE)
            /\ ret[q] = PyBool(TRUE)
            /\ Did(trace[p], "add") /\ Did(trace[p], "commit")
            /\ Did(trace[q], "add") /\ Did(trace[q], "commit")
            /\ DemoCount(store, user[p]) = 2

\* Both invocations started when the user had no demo record, and both have
\* returned True.
C12_Witness ==
    /\ BothPassedCheck("p1", "p2")
    /\ before["p1"].demos = 0
    /\ before["p2"].demos = 0
    /\ ret["p1"] = PyBool(TRUE)
    /\ ret["p2"] = PyBool(TRUE)
    /\ DemoCount(store, user["p1"]) = 2

\* A get_template call that found the slot empty has not yet handed its
\* result to its caller.
FirstLoad == \E p \in Procs : op[p] = "get_template" /\ Did(trace[p], "cache_miss")

\* No get_template call is between its start and its return statement.
AllFinished == \A p \in Procs : pc[p] \in {"idle", "done"}

\* C13: while get_template calls that found the slot empty overlap, with a
\* readable template file, every load that has read the file is about to write
\* the template, the slot is empty or holds the template, every call that
\* has finished returned the template, and once all calls have finished the
\* slot holds the template.
C13_BenignFirstLoadRace ==
    (FirstLoad /\ storage.kind = "doc") =>
        /\ \A p \in Procs : pc[p] = "load_store" => data[p] = storage.doc
        /\ cache \in {PyNone, storage.doc}
        /\ \A p \in Procs : pc[p] = "done" => ret[p] = storage.doc
        /\ AllFinished => cache = storage.doc

\* Two overlapping calls both read the file, both wrote the slot and both
\* returned the template.
C13_Witness ==
    /\ storage.kind = "doc"
    /\ \A p \in Procs :
        /\ pc[p] = "done"
        /\ Did(trace[p], "cache_miss")
        /\ Did(trace[p], "read")
        /\ Did(trace[p], "cache_store")
        /\ ret[p] = storage.doc
    /\ Len(readLog) = 2
    /\ cache = storage.doc

\* C14 as stated: the first get_template call to start after a clear() has
\* completed reads storage itself and returns what it read, whatever else
\* was running while clear() ran: it is never served from the slot.
C14_ClearForcesReload ==
    \A p \in Procs :
        (pc[p] = "done" /\ op[p] = "get_template" /\ first[p]) =>
            /\ ~Did(trace[p], "cache_hit")
            /\ Did(trace[p], "read_fail") => ret[p] = Raised
            /\ ~Did(trace[p], "read_fail") =>
                   /\ Did(trace[p], "read")
                   /\ ret[p] = data[p]

\* C15: provision never mutates the cached template.  The slot changes only
\* when a load that found it empty stores the document it has just read from
\* storage; no other step of a provision call, successful or failed, changes
\* what the slot holds, so the template's config never acquires is_demo,
\* demo_created_at or demo_note.
C15_TemplateNotMutated ==
    [][cache' # cache =>
          /\ cache = PyNone
          /\ \E p \in Procs :
                /\ pc[p] = "load_store"
                /\ storage.kind = "doc"
                /\ data[p] = storage.doc
                /\ cache' = data[p]]_vars

\* After a provision call that inserted a demo record and one that failed at
\* commit, the slot holds the template as loaded, its config without markers.
C15_Witness ==
    /\ cache = TemplateA
    /\ DOMAIN cache.v["analysis"].v["config"].v = {"foo"}
    /\ last # NoCall
    /\ last.ret = PyBool(TRUE)
    /\ Did(last.trace, "build")
    /\ pc[SeqProc] = "done"
    /\ Did(trace[SeqProc], "build")
    /\ Did(trace[SeqProc], "commit_fail")
    /\ ret[SeqProc] = PyBool(FALSE)
    /\ \E i \in 1..Len(store) : DemoMarked(store[i])

\* The invocation called db.rollback().
Rolled(tr) == Did(tr, "rollback") \/ Did(tr, "rollback_fail")

\* The invocation called db.add(), db.commit().
Inserted(tr) == Did(tr, "add") \/ Did(tr, "add_fail")
Committed(tr) == Did(tr, "commit") \/ Did(tr, "commit_fail")

\* The invocation called _load_mock_data.
Fetched(tr) == Did(tr, "cache_hit") \/ Did(tr, "cache_miss")

\* The invocation of p has reached its return statement.
ProvisionDone(p) == pc[p] = "done" /\ op[p] = "provision"

\* C16 as stated: an invocation that aborts at AlreadyExists performs no
\* template fetch; one that aborts at AlreadyExists or FetchFailed performs no
\* insert, no commit and no rollback; rollback is performed only when the
\* insert, the commit or the refresh failed.
C16_Original ==
    \A p \in Procs :
        ProvisionDone(p) =>
            /\ Did(trace[p], "exists") => ~Fetched(trace[p])
            /\ (Did(trace[p], "exists") \/ Did(trace[p], "read_fail")) =>
                   /\ ~Inserted(trace[p])
                   /\ ~Committed(trace[p])
                   /\ ~Rolled(trace[p])
            /\ Rolled(trace[p]) =>
                   \/ Did(trace[p], "add_fail")
                   \/ Did(trace[p], "commit_fail")
                   \/ Did(trace[p], "refresh_fail")

\* The steps that raise into the except block.
FailureSteps ==
    {"query_fail", "read_fail", "build_fail", "add_fail", "commit_fail", "refresh_fail"}

\* The ways _load_mock_data returns to the provisioner.
FetchedTraces == {<<"cache_hit">>, <<"cache_miss", "read", "cache_store">>}

\* The step sequences of the state machine up to the point where the
\* invocation returns True or a step raises.
MachineTraces ==
    {<<"query_fail">>, <<"query", "cache_miss", "read_fail">>}
    \cup {<<"query">> \o f \o t :
            f \in FetchedTraces,
            t \in {<<"build_fail">>,
                   <<"build", "add_fail">>,
                   <<"build", "add", "commit_fail">>,
                   <<"build", "add", "commit", "refresh_fail">>,
                   <<"build", "add", "commit", "refresh">>}}

\* C16 as amended: an invocation runs CheckExisting, FetchTemplate,
\* BuildRecord, add, commit, refresh in this order up to its first failing
\* step.  One that aborts at AlreadyExists performs nothing else (no fetch, no
\* insert, no commit, no rollback).  One that aborts at FetchFailed performs
\* no insert and no commit, but does call rollback: rollback is called
\* exactly when some step raised (the existence query, the fetch, the build,
\* the insert, the commit or the refresh), as the last step before returning
\* False.
C16_StateMachine ==
    \A p \in Procs :
        ProvisionDone(p) =>
            /\ Did(trace[p], "exists") => trace[p] = <<"exists">>
            /\ Did(trace[p], "read_fail") =>
                   /\ ~Inserted(trace[p])
                   /\ ~Committed(trace[p])
                   /\ Rolled(trace[p])
            /\ Rolled(trace[p]) <=> \E ev \in FailureSteps : Did(trace[p], ev)
            /\ Rolled(trace[p]) =>
                   /\ ret[p] = PyBool(FALSE)
                   /\ trace[p][Len(trace[p])] \in {"rollback", "rollback_fail"}
                   /\ trace[p][Len(trace[p]) - 1] \in FailureSteps
                   /\ SubSeq(trace[p], 1, Len(trace[p]) - 1) \in MachineTraces
            /\ ~Rolled(trace[p]) => trace[p] \in MachineTraces \cup {<<"exists">>}

\* An invocation whose template fetch failed has called rollback and returned
\* False without inserting.
C16_Witness ==
    \E p \in Procs :
        /\ ProvisionDone(p)
        /\ trace[p] = <<"query", "cache_miss", "read_fail", "rollback">>
        /\ ret[p] = PyBool(FALSE)
        /\ Counts(store, user[p]) = before[p]

\* The value under key k of x, null where x is no mapping or lacks k.
Lookup(x, k) == IF IsDict(x) /\ HasKey(x, k) THEN x.v[k] ELSE PyNone

\* The name a severity envelope holds at data.attributes.name, and at
\* attributes.name.
DataPathName(sev) == Lookup(Lookup(Lookup(sev, "data"), "attributes"), "name")
FlatPathName(sev) == Lookup(Lookup(sev, "attributes"), "name")

\* The severity the claim resolves sev to.
ResolvedSeverity(sev) ==
    IF IsStr(sev) THEN sev
    ELSE IF IsDict(sev)
    THEN IF DataPathName(sev) # PyNone THEN DataPathName(sev) ELSE FlatPathName(sev)
    ELSE PyNone

\* C17 as stated: in the output of slim_incident a plain-string severity is
\* kept as is; for an envelope the severity is the name at data.attributes.name
\* and, when that path yields no name, the name at attributes.name; the
\* severity is omitted only when neither path yields a name.
C17_SeverityResolution ==
    (OneSlimmed /\ IsDict(slimmed) /\ HasKey(incident, "attributes")) =>
        Get(slimmed.v["attributes"], "severity")
            = ResolvedSeverity(Get(incident.v["attributes"], "severity"))

\* The envelope whose data.attributes has no name while attributes.name is
\* "SEV2" has been slimmed, and the output has no severity.
C17_NoFallback ==
    /\ OneSlimmed
    /\ HasKey(incident, "attributes")
    /\ Get(incident.v["attributes"], "severity")
           = PyDict([data |-> PyDict([attributes |-> EmptyDict]),
                     attributes |-> PyDict([name |-> PyStr("SEV2")])])
    /\ ~HasKey(slimmed.v["attributes"], "severity")

\* The call completed just before p's was a provision call for the same user
\* that returned False because the template load failed, or because the
\* insert or the commit failed and was rolled back.
FailedBefore(p) ==
    /\ last # NoCall
    /\ last.op = "provision"
    /\ last.user = user[p]
    /\ last.ret = PyBool(FALSE)
    /\ \/ Did(last.trace, "read_fail")
       \/ /\ Did(last.trace, "add_fail") \/ Did(last.trace, "commit_fail")
          /\ Did(last.trace, "rollback")

\* The call of p ran while template storage and persistence worked: the file
\* holds a template a record can be built from, and no database step raised.
EnvironmentWorks(p) ==
    /\ storage.kind = "doc"
    /\ BuildOk(storage.doc)
    /\ \A ev \in {"query_fail", "add_fail", "commit_fail", "refresh_fail"} :
           ~Did(trace[p], ev)

\* C18: a provision call for the same user as a call that failed at the
\* template load, or at insert or commit with a rollback, made while template
\* storage and persistence work, returns True and inserts the demo record.
C18_NoPoisoning ==
    \A p \in Procs :
        (ProvisionDone(p) /\ FailedBefore(p) /\ EnvironmentWorks(p)) =>
            /\ ret[p] = PyBool(TRUE)
            /\ Did(trace[p], "commit")
            /\ before[p].demos = 0
            /\ Counts(store, user[p])
                   = [rows |-> before[p].rows + 1, demos |-> 1]
            /\ store[Len(store)].user_id = user[p]
            /\ DemoMarked(store[Len(store)])

\* A call that failed at the template load was followed, once the file was
\* there, by a call for the same user that inserted the demo record.
C18_Witness ==
    \E p \in Procs :
        /\ ProvisionDone(p)
        /\ FailedBefore(p)
        /\ Did(last.trace, "read_fail")
        /\ EnvironmentWorks(p)
        /\ Did(trace[p], "read")
        /\ ret[p] = PyBool(TRUE)
        /\ DemoCount(store, user[p]) = 1

\* C19: provisioning is isolated per user.  The table changes only when an
\* invocation commits, and then by one appended row whose user_id is that
\* invocation's user, every row there was staying as it is; and the existence
\* check makes an invocation return False only when its own user has a demo
\* record.
C19_PerUserIsolation ==
    [][/\ store' # store =>
            \E p \in Procs :
                /\ pc[p] = "commit"
                /\ Len(store') = Len(store) + 1
                /\ SubSeq(store', 1, Len(store)) = store
                /\ store'[Len(store')].user_id = user[p]
       /\ \A p \in Procs :
            (pc[p] = "check" /\ pc'[p] = "done") =>
                /\ Did(trace'[p], "exists")
                /\ DemoCount(store, user[p]) >= 1]_vars

\* A provision call returned True for a user without a demo record right
\* after a call that inserted another user's demo record.
C19_Witness ==
    \E p \in Procs :
        /\ ProvisionDone(p)
        /\ last # NoCall
        /\ last.op = "provision"
        /\ last.user # user[p]
        /\ last.ret = PyBool(TRUE)
        /\ last.after.demos = 1
        /\ before[p].demos = 0
        /\ Did(trace[p], "query")
        /\ ret[p] = PyBool(TRUE)
        /\ \A u \in {user[p], last.user} : DemoCount(store, u) = 1

====
